---- MODULE Spec2Model ----
(***************************************************************************)
(* Model of sql/utils/execute_sql.py: execute (the dispatcher of a SQL     *)
(* workflow) and execute_callback (the django-q hook that reconciles the   *)
(* result of an execution and promotes the workflow along dev, sit, uat,   *)
(* pro).  One workflow row, its content row, the DBEnvRelation table, the  *)
(* audit log, the redis cache and the notifier are the shared state; every *)
(* invocation of execute or execute_callback is a process whose steps are  *)
(* the database / collaborator calls of the function, in source order.     *)
(*                                                                         *)
(* Four specifications share the actions.  Spec runs the invocations       *)
(* concurrently, in every interleaving, on one chain of environments:      *)
(* two threads of execute against one worker of the task cluster, or one   *)
(* thread against two workers.  Serial runs the invocations one after      *)
(* another on every combination of workflow, relation table and task       *)
(* outcome listed below.  Chain runs the whole chain of environments with  *)
(* clean executions under fairness, and Redelivery lets a result be        *)
(* delivered again while a later dispatch is under way.                    *)
(***************************************************************************)
EXTENDS Integers, Sequences, FiniteSets, Bags, TLC

\* ------------------------------------------------------------------ bounds
MaxCalls == 3   \* invocations of execute and execute_callback in one behaviour

\* --------------------------------------------------------------- processes
\* the threads that run execute, the workers that run execute_callback
Dispatchers == 1..2
Callbacks == 1..2

\* ------------------------------------------------------------------ values
None == "None"

Queuing == "workflow_queuing"
TimingTask == "workflow_timingtask"
Executing == "workflow_executing"
Finish == "workflow_finish"
ExceptionStatus == "workflow_exception"
ReviewPass == "workflow_review_pass"

Envs == <<"dev", "sit", "uat", "pro">>

\* '[{}]'.format(env)
Mark(env) == "[" \o env \o "]"

\* the alternatives of the pattern ^\[(dev|sit|uat|pro)\]
Tags == {Mark(Envs[i]) : i \in 1..4}

SqlText == "alter table t add index i(c)"

\* ------------------------------------------------ task results (task.result)
\* A task result is None, the traceback string of a failed task, or a
\* ReviewSet.  All three are records of one shape so that they compare.
NoResult == [kind |-> "NoneType", text |-> "", warning |-> None, error |-> None, rows |-> <<>>]

TraceResult == [kind |-> "str", text |-> "Traceback", warning |-> None, error |-> None, rows |-> <<>>]

ReviewResult(stage, errlevel, stagestatus, errormessage, sql) ==
    [stage |-> stage, errlevel |-> errlevel, stagestatus |-> stagestatus,
     errormessage |-> errormessage, sql |-> sql]

OkRow == ReviewResult("Execute Successfully", 0, "ok", NoResult, SqlText)

ReviewSet(warning, error, rows) ==
    [kind |-> "ReviewSet", text |-> "", warning |-> warning, error |-> error, rows |-> rows]

CleanResult == ReviewSet(None, None, <<OkRow>>)
EmptyResult == ReviewSet(None, None, <<>>)
WarningResult == ReviewSet("warn", None, <<OkRow>>)
ErrorResult == ReviewSet(None, "err", <<OkRow>>)

TaskResults == {NoResult, TraceResult, CleanResult, EmptyResult, WarningResult, ErrorResult}

Task(success, result) == [success |-> success, result |-> result]

\* every outcome a task may be handed to the hook with
AllTasks == {Task(TRUE, r) : r \in TaskResults}
            \cup {Task(FALSE, r) : r \in {NoResult, TraceResult, ErrorResult}}

\* a clean execution, a failed one, and a success without a result
FewTasks == {Task(TRUE, CleanResult), Task(FALSE, TraceResult), Task(TRUE, NoResult)}

\* task.stopped of the n-th task handed to the hook
Stopped(n) == IF n = 1 THEN "t1" ELSE IF n = 2 THEN "t2" ELSE "t3"

\* python truthiness of a str-or-None attribute
Truthy(x) == x \notin {None, ""}

\* a test that forgets the warnings
FlaggedErrorOnly(result) == Truthy(result.error)

\* line 79: task.result.warning or task.result.error
Flagged(result) == Truthy(result.warning) \/ Truthy(result.error)

\* lines 66-84: the status and the result chosen for a task; "raised" when
\* task.result has no attribute warning (AttributeError at line 79)
Classify(success, result, sql_content) ==
    IF ~success
    THEN [raised |-> FALSE, status |-> ExceptionStatus,
          result |-> ReviewSet(None, None,
                       <<ReviewResult("Execute failed", 2, "abnormal termination",
                                      result, sql_content)>>)]
    ELSE IF result.kind # "ReviewSet"
    THEN [raised |-> TRUE, status |-> Executing, result |-> result]
    ELSE IF Flagged(result)
    THEN [raised |-> FALSE, status |-> ExceptionStatus, result |-> result]
    ELSE [raised |-> FALSE, status |-> Finish, result |-> result]

\* ReviewSet.json(): the serialised result stored in the content row
Json(result) == [json |-> result, errors |-> {}]

\* line 96: {f"{e}"}, the set holding the text of the error
ErrorPayload(e) == [json |-> NoResult, errors |-> {e}]

NoPayload == [json |-> NoResult, errors |-> {}]

\* SqlWorkflow.get_status_display()
StatusDisplay(status) == "display:" \o status

\* -------------------------------------------------------- DBEnvRelation rows
Relation(di, dd, si, sd, ui, ud, pi, pd) ==
    [dev_instance |-> di, dev_database |-> dd, sit_instance |-> si, sit_database |-> sd,
     uat_instance |-> ui, uat_database |-> ud, pro_instance |-> pi, pro_database |-> pd]

LinkFull == Relation("I1", "D1", "I2", "D2", "I3", "D3", "I4", "D4")
LinkNoSit == Relation("I1", "D1", None, "", "I3", "D3", "I4", "D4")
LinkSitNoDb == Relation("I1", "D1", "I2", "", "I3", "D3", None, None)

LinkOther == Relation("I8", "D8", "I9", "D9", None, "", None, "")

LinkTables == {<<>>, <<LinkOther>>, <<LinkFull>>, <<LinkNoSit>>, <<LinkSitNoDb>>,
               <<LinkOther, LinkFull>>}

StartTargets == {<<"I1", "D1">>, <<"I3", "D3">>, <<"I4", "D4">>}

\* workflow names, as sequences of tokens: a token is a whole bracketed tag
\* or a piece of text that holds no bracket
InitNames == {<<"Add index">>, <<"[dev]", "Add index">>, <<"[pro]", "Add index">>,
              <<"[uat]", "Add ", "[uat]">>}

VARIABLES
    wf,            \* the SqlWorkflow row
    content,       \* its SqlWorkflowContent row
    links,         \* the DBEnvRelation table
    tasks,         \* the outcomes the task cluster may hand to the hook
    workers,       \* the pool: how many invocations may run at once and in all
    rowLock,       \* the dispatcher holding the row lock of the workflow, 0 when free
    audit_log,     \* the entries Audit.add_log has appended (a bag)
    cache,         \* the keys held by redis
    notified,      \* the workflows handed to notify_for_execute (a bag)
    engine_calls,  \* the instances whose engine was handed the workflow (a bag)
    queued,        \* how many times the workflow has been put in the queue
    nPassed,       \* how many dispatches have passed the status guard
    dcalls,        \* invocations of execute so far
    ccalls,        \* invocations of execute_callback so far
    disp,          \* per dispatcher: its position and locals
    cb             \* per callback: its position and locals

vars == <<wf, content, links, tasks, workers, rowLock, audit_log, cache, notified, engine_calls,
          queued, nPassed, dcalls, ccalls, disp, cb>>

\* call: the number of the invocation; status, instance: workflow_detail as
\* read at line 24; result: how the call ended
IdleDisp == [pc |-> "idle", call |-> 0, status |-> None, instance |-> None, result |-> None]

NoRow == [id |-> 0, status |-> None, instance |-> None, db_name |-> None,
          workflow_name |-> <<>>, syntax_type |-> 0, finish_time |-> None]

\* call: the number of the invocation; attempt: how many dispatches had
\* passed the guard when it began; task: the task handed to the hook;
\* stopped: task.stopped; workflow: the in-memory object loaded at line 60;
\* classified: the status chosen at lines 66-84; execute_result, e, curr_env,
\* next_env, curr_workflow_rst: the locals of these names; result: how the
\* call ended.  A local is blank before it is set and once it is dead.
IdleCb == [pc |-> "idle", call |-> 0, attempt |-> 0, task |-> Task(FALSE, NoResult),
           stopped |-> None, workflow |-> NoRow,
           classified |-> None, execute_result |-> NoResult, e |-> None,
           curr_env |-> "", next_env |-> "", curr_workflow_rst |-> None,
           result |-> None]

\* the end of call n: the locals die, the outcome is kept
Return(n, a, outcome) ==
    [IdleCb EXCEPT !.pc = "done", !.call = n, !.attempt = a, !.result = outcome]

\* the invocations that are running
Running(procs, state) == {p \in procs : state[p].pc \notin {"idle", "done"}}

\* the pool hands a call to its first free thread
FirstFree(procs, state) ==
    CHOOSE p \in procs \ Running(procs, state) :
        \A q \in procs \ Running(procs, state) : p <= q

\* how many invocations may run at once (of execute, of the hook, in all)
\* and how many are made in one behaviour
Pool(nExecute, nCallback, nAll, nCalls) ==
    [execute |-> nExecute, callback |-> nCallback, all |-> nAll, calls |-> nCalls]

Start(row, tbl, outcomes, pool) ==
    /\ wf = row
    /\ content = [sql_content |-> SqlText, execute_result |-> NoPayload]
    /\ links = tbl
    /\ tasks = outcomes
    /\ workers = pool
    /\ rowLock = 0
    /\ audit_log = EmptyBag
    /\ cache = {<<"I1", "insRes", "db">>, <<"session">>}
    /\ notified = EmptyBag
    /\ engine_calls = EmptyBag
    /\ queued = 1
    /\ nPassed = 0
    /\ dcalls = 0
    /\ ccalls = 0
    /\ disp = [p \in Dispatchers |-> IdleDisp]
    /\ cb = [p \in Callbacks |-> IdleCb]

Row(status, target, name, syntax_type) ==
    [id |-> 42, status |-> status, instance |-> target[1], db_name |-> target[2],
     workflow_name |-> name, syntax_type |-> syntax_type, finish_time |-> None]

\* a DDL workflow queued at dev of the full chain
Init ==
    \E pool \in {Pool(2, 1, 3, MaxCalls), Pool(1, 2, 3, MaxCalls)} :
        Start(Row(Queuing, <<"I1", "D1">>, <<"[dev]", "Add index">>, 1),
              <<LinkFull>>, FewTasks, pool)

\* every name on the full chain, and every relation table with either
\* initial status and either syntax type
InitSerial ==
    \/ \E tgt \in StartTargets, nm \in InitNames :
          Start(Row(Queuing, tgt, nm, 1), <<LinkFull>>, AllTasks, Pool(1, 1, 1, MaxCalls))
    \/ \E st \in {Queuing, TimingTask}, tgt \in StartTargets, ty \in {1, 2}, tbl \in LinkTables :
          Start(Row(st, tgt, <<"Add index">>, ty), tbl, AllTasks, Pool(1, 1, 1, MaxCalls))

\* any database or collaborator call may raise
MayFail == TRUE

\* =================================================================== execute
\* a guard that forgets the timed workflows
DispatchableQueuingOnly(status) == status = Queuing

\* line 26: the statuses a workflow may be dispatched from
Dispatchable(status) == status \in {Queuing, TimingTask}

\* a plain get(): the read does not wait for the row lock
SelectNoWait(holder) == TRUE

\* line 24: select_for_update() waits until no transaction holds the row
SelectForUpdate(holder) == holder = 0

\* line 24: SELECT ... FOR UPDATE inside transaction.atomic(): waits for the
\* row lock, takes it and reads the row
ExLock(p) ==
    /\ Cardinality(Running(Dispatchers, disp)) < workers.execute
    /\ Cardinality(Running(Dispatchers, disp)) + Cardinality(Running(Callbacks, cb)) < workers.all
    /\ p = FirstFree(Dispatchers, disp)
    /\ dcalls + ccalls < workers.calls
    /\ SelectForUpdate(rowLock)
    /\ rowLock' = p
    /\ dcalls' = dcalls + 1
    /\ disp' = [disp EXCEPT ![p] = [pc |-> "check", call |-> dcalls', status |-> wf.status,
                                    instance |-> wf.instance, result |-> None]]
    /\ UNCHANGED <<wf, content, links, tasks, workers, audit_log, cache, notified,
                   engine_calls, queued, nPassed, ccalls, cb>>

\* a dispatch that writes the status before it tests the one it read
ExCheckWriteFirst(p) ==
    /\ disp[p].pc = "check"
    /\ rowLock' = 0
    /\ wf' = [wf EXCEPT !.status = Executing]
    /\ IF ~Dispatchable(disp[p].status)
       THEN /\ disp' = [disp EXCEPT ![p].pc = "done", ![p].result = "InvalidState",
                                    ![p].instance = None]
            /\ UNCHANGED nPassed
       ELSE /\ nPassed' = nPassed + 1
            /\ disp' = [disp EXCEPT ![p].pc = "audit"]
    /\ UNCHANGED <<content, links, tasks, workers, audit_log, cache, notified, engine_calls,
                   queued, dcalls, ccalls, cb>>

\* lines 26-32: the guard, the write of the status and the end of the
\* transaction (commit or rollback), which releases the row lock
ExCheck(p) ==
    /\ disp[p].pc = "check"
    /\ rowLock' = 0
    /\ IF ~Dispatchable(disp[p].status)
       THEN /\ disp' = [disp EXCEPT ![p].pc = "done", ![p].result = "InvalidState",
                                    ![p].instance = None]
            /\ UNCHANGED <<wf, nPassed>>
       ELSE /\ wf' = [wf EXCEPT !.status = Executing]
            /\ nPassed' = nPassed + 1
            /\ disp' = [disp EXCEPT ![p].pc = "audit"]
    /\ UNCHANGED <<content, links, tasks, workers, audit_log, cache, notified, engine_calls,
                   queued, dcalls, ccalls, cb>>

\* lines 34-44: the audit entry of the dispatch
\* the user execute is called with: None when the scheduler calls it
Users == {None, "alice"}

DispatchEntry(call, user) ==
    [operation_type |-> 5, operation_type_desc |-> "execute workflow",
     operation_info |-> IF user # None THEN "workflow starts" ELSE "timed execution by system",
     operator |-> IF user # None THEN user ELSE "",
     operator_display |-> IF user # None THEN "display:" \o user ELSE "system",
     by |-> call]

ExAudit(p) ==
    /\ disp[p].pc = "audit"
    /\ \/ /\ \E user \in Users :
               audit_log' = audit_log (+) SetToBag({DispatchEntry(disp[p].call, user)})
          /\ disp' = [disp EXCEPT ![p].pc = "engine"]
       \/ /\ MayFail
          /\ disp' = [disp EXCEPT ![p].pc = "done", ![p].result = "Error", ![p].instance = None]
          /\ UNCHANGED audit_log
    /\ UNCHANGED <<wf, content, links, tasks, workers, rowLock, cache, notified, engine_calls,
                   queued, nPassed, dcalls, ccalls, cb>>

\* lines 45-46: the engine of the instance read under the lock runs the workflow
ExEngine(p) ==
    /\ disp[p].pc = "engine"
    /\ \/ /\ engine_calls' = engine_calls (+) SetToBag({disp[p].instance})
          /\ disp' = [disp EXCEPT ![p].pc = "done", ![p].result = "ok", ![p].instance = None]
       \/ /\ MayFail
          /\ disp' = [disp EXCEPT ![p].pc = "done", ![p].result = "Error", ![p].instance = None]
          /\ UNCHANGED engine_calls
    /\ UNCHANGED <<wf, content, links, tasks, workers, rowLock, audit_log, cache, notified,
                   queued, nPassed, dcalls, ccalls, cb>>

\* ========================================================== execute_callback
\* a guard that lets a finished workflow through
ReconcilableOrFinish(status) == status \in {Executing, Finish}

\* a guard that lets a promoted workflow through
ReconcilableOrReviewPass(status) == status \in {Executing, ReviewPass}

\* line 61: the status a result may be reconciled in
Reconcilable(status) == status = Executing

\* lines 57-84: the guard on the status read at line 60 (a plain read that
\* takes no lock), then finish_time and the classification on the in-memory
\* object
CbGuard(p) ==
    /\ Cardinality(Running(Callbacks, cb)) < workers.callback
    /\ Cardinality(Running(Dispatchers, disp)) + Cardinality(Running(Callbacks, cb)) < workers.all
    /\ p = FirstFree(Callbacks, cb)
    /\ dcalls + ccalls < workers.calls
    /\ ccalls' = ccalls + 1
    /\ IF ~Reconcilable(wf.status)
       THEN cb' = [cb EXCEPT ![p] = Return(ccalls', nPassed, "DuplicateCallback")]
       ELSE \E task \in tasks :
              LET c == Classify(task.success, task.result, content.sql_content)
              IN  IF c.raised
                  THEN cb' = [cb EXCEPT ![p] = Return(ccalls', nPassed, "AttributeError")]
                  ELSE cb' = [cb EXCEPT ![p] =
                                [IdleCb EXCEPT !.pc = "persist",
                                               !.call = ccalls',
                                               !.attempt = nPassed,
                                               !.task = task,
                                               !.stopped = Stopped(ccalls'),
                                               !.workflow = [wf EXCEPT
                                                   !.finish_time = Stopped(ccalls'),
                                                   !.status = c.status],
                                               !.classified = c.status,
                                               !.execute_result = c.result]]
    /\ UNCHANGED <<wf, content, links, tasks, workers, rowLock, audit_log, cache, notified, engine_calls,
                   queued, nPassed, dcalls, disp>>

\* ------------------------------------------------ the environment chain
\* one disjunct of the filter of lines 99-103
SlotMatches(rel, env, w) ==
    /\ rel[env \o "_instance"] = w.instance
    /\ rel[env \o "_database"] = w.db_name

\* lines 99-104: the index of the first row with a slot equal to the
\* workflow's (instance, db_name); 0 when .first() is None
DbRelate(tbl, w) ==
    LET found == {i \in DOMAIN tbl : \E k \in 1..4 : SlotMatches(tbl[i], Envs[k], w)}
    IN  IF found = {} THEN 0 ELSE CHOOSE i \in found : \A j \in found : i <= j

\* a chain whose last slot is never taken
ConfiguredBeforePro(rel, env) ==
    /\ env # "pro"
    /\ rel[env \o "_instance"] # None
    /\ rel[env \o "_database"] \notin {None, ""}

\* a test that forgets the database
ConfiguredInstanceOnly(rel, env) == rel[env \o "_instance"] # None

\* lines 110, 115, 120: instance is not None and len(database) > 0 (a None
\* database raises TypeError, caught at line 125: the slot is not taken)
Configured(rel, env) ==
    /\ rel[env \o "_instance"] # None
    /\ rel[env \o "_database"] # None
    /\ rel[env \o "_database"] # ""

\* the slot chosen by the if/elif chain of lines 108-124
CurrSlot(rel, w) ==
    CHOOSE k \in 1..4 : /\ SlotMatches(rel, Envs[k], w)
                        /\ \A j \in 1..(k - 1) : ~SlotMatches(rel, Envs[j], w)

\* line 130: re.match(r'^\[(dev|sit|uat|pro)\]', workflow_name)
TagMatch(name) == name # <<>> /\ name[1] \in Tags

\* str.replace(old, new): every occurrence is replaced
Replace(name, old, new) == [i \in DOMAIN name |-> IF name[i] = old THEN new ELSE name[i]]

\* lines 130-136: the new workflow_name
Rename(name, curr_env, next_env) ==
    IF ~TagMatch(name)
    THEN <<Mark(next_env)>> \o name
    ELSE Replace(name, Mark(curr_env), Mark(next_env))

\* an assignment that forgets the database
RetargetInstanceOnly(w, rel, env) == [w EXCEPT !.instance = rel[env \o "_instance"]]

\* lines 112, 117, 122: the workflow takes the instance and database of a slot
Retarget(w, rel, env) ==
    [w EXCEPT !.instance = rel[env \o "_instance"], !.db_name = rel[env \o "_database"]]

\* a promoter that takes a missing relation row for a failure of the workflow
PromoteLinked(tbl, w) ==
    LET i == DbRelate(tbl, w)
    IN  IF i = 0
        THEN [curr_env |-> "", next_env |-> "",
              workflow |-> [w EXCEPT !.status = ExceptionStatus]]
        ELSE LET rel == tbl[i]
                 k == CurrSlot(rel, w)
             IN  IF k < 4 /\ Configured(rel, Envs[k + 1])
                 THEN [curr_env |-> Envs[k], next_env |-> Envs[k + 1],
                       workflow |-> [Retarget(w, rel, Envs[k + 1]) EXCEPT
                           !.status = ReviewPass,
                           !.workflow_name = Rename(w.workflow_name, Envs[k], Envs[k + 1])]]
                 ELSE [curr_env |-> Envs[k], next_env |-> "", workflow |-> w]

\* lines 105-137 on the in-memory workflow w: curr_env, next_env and the
\* workflow as mutated
Promote(tbl, w) ==
    LET i == DbRelate(tbl, w)
    IN  IF i = 0
        THEN [curr_env |-> "", next_env |-> "", workflow |-> w]
        ELSE LET rel == tbl[i]
                 k == CurrSlot(rel, w)
             IN  IF k < 4 /\ Configured(rel, Envs[k + 1])
                 THEN [curr_env |-> Envs[k], next_env |-> Envs[k + 1],
                       workflow |-> [Retarget(w, rel, Envs[k + 1]) EXCEPT
                           !.status = ReviewPass,
                           !.workflow_name = Rename(w.workflow_name, Envs[k], Envs[k + 1])]]
                 ELSE [curr_env |-> Envs[k], next_env |-> "", workflow |-> w]

\* lines 91-97, after a save raised e with the content row as c0: the forced
\* update of the row, then the text of the error stored as the result.  Each
\* outcome: the rows left behind, whether the callback goes on
Fallback(c0, e, stopped) ==
    LET forced == [wf EXCEPT !.finish_time = stopped, !.status = ExceptionStatus]
    IN  { [wf |-> forced, content |-> [c0 EXCEPT !.execute_result = ErrorPayload(e)],
           goes_on |-> TRUE],
          [wf |-> wf, content |-> c0, goes_on |-> FALSE],
          [wf |-> forced, content |-> c0, goes_on |-> FALSE] }

\* lines 85-97: the outcomes of saving the result; either save may raise
Persist(workflow, execute_result, stopped) ==
    LET saved == [content EXCEPT !.execute_result = Json(execute_result)]
    IN  { [wf |-> workflow, content |-> saved, goes_on |-> TRUE] }
        \cup Fallback(content, "content save failed", stopped)
        \cup Fallback(saved, "workflow save failed", stopped)

\* lines 85-97: save the content row and the workflow row; the in-memory
\* object keeps the classified status whatever happens.  The UPDATE of the
\* workflow row waits for the row lock.
CbPersist(p) ==
    /\ cb[p].pc = "persist"
    /\ rowLock = 0
    /\ \E o \in Persist(cb[p].workflow, cb[p].execute_result, cb[p].stopped) :
          /\ wf' = o.wf
          /\ content' = o.content
          /\ cb' = [cb EXCEPT ![p] = IF o.goes_on
                                      THEN [cb[p] EXCEPT !.pc = "promote",
                                                         !.task = Task(FALSE, NoResult),
                                                         !.execute_result = NoResult]
                                      ELSE Return(cb[p].call, cb[p].attempt, "Error")]
    /\ UNCHANGED <<links, tasks, workers, rowLock, audit_log, cache, notified, engine_calls,
                   queued, nPassed, dcalls, ccalls, disp>>

\* lines 98-138: the query of the relation table, the promotion of the
\* in-memory object and the save of every field of it
CbPromote(p) ==
    /\ cb[p].pc = "promote"
    /\ rowLock = 0
    /\ \/ /\ LET r == Promote(links, cb[p].workflow)
             IN  /\ wf' = r.workflow
                 /\ cb' = [cb EXCEPT ![p].pc = "audit",
                                      ![p].curr_workflow_rst = StatusDisplay(cb[p].workflow.status),
                                      ![p].curr_env = r.curr_env,
                                      ![p].next_env = r.next_env,
                                      ![p].workflow = r.workflow]
       \/ /\ MayFail
          /\ cb' = [cb EXCEPT ![p] = Return(cb[p].call, cb[p].attempt, "Error")]
          /\ UNCHANGED wf
    /\ UNCHANGED <<content, links, tasks, workers, rowLock, audit_log, cache, notified, engine_calls,
                   queued, nPassed, dcalls, ccalls, disp>>

\* an entry that always carries the pending suffix
CallbackEntryAlwaysPending(call, curr_env, curr_workflow_rst, next_env) ==
    [operation_type |-> 6, operation_type_desc |-> curr_env \o " finished",
     operation_info |-> [env |-> curr_env, result |-> curr_workflow_rst,
                         prompt |-> next_env \o " pending"],
     operator |-> "", operator_display |-> "system", by |-> call]

\* lines 137, 143-150: the audit entry of the callback
CallbackEntry(call, curr_env, curr_workflow_rst, next_env) ==
    [operation_type |-> 6, operation_type_desc |-> curr_env \o " finished",
     operation_info |-> [env |-> curr_env, result |-> curr_workflow_rst,
                         prompt |-> IF next_env # "" THEN next_env \o " pending" ELSE ""],
     operator |-> "", operator_display |-> "system", by |-> call]

CbAudit(p) ==
    /\ cb[p].pc = "audit"
    /\ \/ /\ audit_log' = audit_log (+) SetToBag({CallbackEntry(cb[p].call, cb[p].curr_env,
                                          cb[p].curr_workflow_rst, cb[p].next_env)})
          /\ cb' = [cb EXCEPT ![p].pc = "notify", ![p].curr_env = "", ![p].next_env = "",
                               ![p].curr_workflow_rst = None]
       \/ /\ MayFail
          /\ cb' = [cb EXCEPT ![p] = Return(cb[p].call, cb[p].attempt, "Error")]
          /\ UNCHANGED audit_log
    /\ UNCHANGED <<wf, content, links, tasks, workers, rowLock, cache, notified, engine_calls,
                   queued, nPassed, dcalls, ccalls, disp>>

\* line 155: the keys matching *insRes*
InsResKeys(keys) == {k \in keys : \E i \in DOMAIN k : k[i] = "insRes"}

\* the values SysConfig may hold for notify_phase_control, split at ","
NotifyPhaseControls == {<<>>, <<"Apply", "Execute">>, <<"Apply">>}

\* lines 160-164
IsNotified(phases) ==
    IF phases # <<>> THEN \E i \in DOMAIN phases : phases[i] = "Execute" ELSE TRUE

\* lines 152-166: a DDL workflow clears the instance resource keys; then the
\* notification, when the Execute phase is enabled.  Either call may raise.
CbNotify(p) ==
    /\ cb[p].pc = "notify"
    /\ LET cleared == IF cb[p].workflow.syntax_type = 1 THEN cache \ InsResKeys(cache)
                                                         ELSE cache
       IN  \/ /\ \E phases \in NotifyPhaseControls :
                    notified' = IF IsNotified(phases)
                                THEN notified (+) SetToBag({cb[p].workflow})
                                ELSE notified
              /\ cache' = cleared
              /\ cb' = [cb EXCEPT ![p] = Return(cb[p].call, cb[p].attempt, "ok")]
           \/ /\ MayFail
              /\ cb' = [cb EXCEPT ![p] = Return(cb[p].call, cb[p].attempt, "Error")]
              /\ \/ cb[p].workflow.syntax_type = 1 /\ UNCHANGED cache
                 \/ cache' = cleared
              /\ UNCHANGED notified
    /\ UNCHANGED <<wf, content, links, tasks, workers, rowLock, audit_log, engine_calls,
                   queued, nPassed, dcalls, ccalls, disp>>

\* ================================================================= upstream
\* the scheduler upstream puts a review_pass workflow back in the queue
Requeue ==
    /\ wf.status = ReviewPass
    /\ Cardinality(Running(Dispatchers, disp)) + Cardinality(Running(Callbacks, cb)) < workers.all
    /\ rowLock = 0
    /\ wf' = [wf EXCEPT !.status = Queuing]
    /\ queued' = queued + 1
    /\ UNCHANGED <<content, links, tasks, workers, rowLock, audit_log, cache, notified, engine_calls,
                   nPassed, dcalls, ccalls, disp, cb>>

Next ==
    \/ \E p \in Dispatchers : ExLock(p)
    \/ \E p \in Dispatchers : ExCheck(p)
    \/ \E p \in Dispatchers : ExAudit(p)
    \/ \E p \in Dispatchers : ExEngine(p)
    \/ \E p \in Callbacks : CbGuard(p)
    \/ \E p \in Callbacks : CbPersist(p)
    \/ \E p \in Callbacks : CbPromote(p)
    \/ \E p \in Callbacks : CbAudit(p)
    \/ \E p \in Callbacks : CbNotify(p)
    \/ Requeue

Spec == Init /\ [][Next]_vars

Serial == InitSerial /\ [][Next]_vars

\* ------------------------------------------------------- the whole chain
\* The third specification, Chain, is the system as the task cluster runs it
\* when nothing is delivered out of turn: execute is called for a workflow
\* that is in the queue, and the hook is called once for each task the
\* engine was handed.  Every task ends clean.
CleanTasks == {Task(TRUE, CleanResult), Task(TRUE, EmptyResult)}

InitChain ==
    \E nm \in InitNames, st \in {Queuing, TimingTask} :
        Start(Row(st, <<"I1", "D1">>, nm, 1), <<LinkFull>>, CleanTasks,
              Pool(1, 1, 1, 2 * Len(Envs)))

\* a call of execute or of the hook begins only in its turn
Orderly ==
    /\ dcalls' # dcalls => Dispatchable(wf.status)
    /\ ccalls' # ccalls => BagCardinality(engine_calls) > ccalls

DispatchStep ==
    \E p \in Dispatchers : ExLock(p) \/ ExCheck(p) \/ ExAudit(p) \/ ExEngine(p)

CallbackStep ==
    \E p \in Callbacks : CbGuard(p) \/ CbPersist(p) \/ CbPromote(p) \/ CbAudit(p) \/ CbNotify(p)

ChainNext ==
    \/ DispatchStep /\ Orderly
    \/ CallbackStep /\ Orderly
    \/ Requeue

\* the cluster keeps running the dispatch, the hook and the queue
Chain ==
    /\ InitChain
    /\ [][ChainNext]_vars
    /\ WF_vars(DispatchStep /\ Orderly)
    /\ WF_vars(CallbackStep /\ Orderly)
    /\ WF_vars(Requeue)

\* ------------------------------------------------------------ redelivery
\* The fourth specification, Redelivery, is the system with a task cluster
\* that may deliver the result of a task more than once, but delivers
\* nothing before the engine was first handed the workflow.  One dispatch
\* and one callback may run at once.
InitRedelivery ==
    Start(Row(Queuing, <<"I1", "D1">>, <<"[dev]", "Add index">>, 1),
          <<LinkFull>>, FewTasks, Pool(1, 1, 2, MaxCalls + 1))

\* the hook is called for a task the engine was handed
AfterEngine == ccalls' # ccalls => BagCardinality(engine_calls) >= 1

RedeliveryNext ==
    \/ DispatchStep
    \/ CallbackStep /\ AfterEngine
    \/ Requeue

Redelivery == InitRedelivery /\ [][RedeliveryNext]_vars

\* ==================================================================== claims
\* how many entries of a type the audit log holds for a call
AuditCount(type, call) ==
    LET es == {e \in BagToSet(audit_log) : e.operation_type = type /\ e.by = call}
    IN  BagCardinality([e \in es |-> audit_log[e]])

\* dispatcher p leaves the guard in this step
ChecksNow(p) == disp[p].pc = "check" /\ disp'[p].pc # "check"

\* callback p begins in this step
BeginsNow(p) == cb[p].pc \in {"idle", "done"} /\ cb'[p] # cb[p]

\* callback p ends in this step
EndsNow(p) == cb'[p].pc = "done" /\ cb'[p] # cb[p]

\* C1: execute raises the status error exactly when the status read under
\* the row lock is neither queuing nor timingtask; otherwise the step makes
\* the persisted status executing, and an execute that returns has appended
\* exactly one audit entry of its own.
C1_DispatchGuard ==
    /\ [][\A p \in Dispatchers : ChecksNow(p) =>
            /\ (disp'[p].result = "InvalidState") <=> (wf.status \notin {Queuing, TimingTask})
            /\ disp'[p].result = "InvalidState" => wf' = wf
            /\ disp'[p].result # "InvalidState" => wf' = [wf EXCEPT !.status = Executing]]_vars
    /\ [](\A p \in Dispatchers :
            /\ disp[p].pc = "done" /\ disp[p].result = "ok" => AuditCount(5, disp[p].call) = 1
            /\ disp[p].pc = "done" /\ disp[p].result = "InvalidState"
                  => AuditCount(5, disp[p].call) = 0)

\* the scheduler's execute of a timed workflow returned, with its one audit
\* entry; the next execute found the workflow executing and was refused
C1_Witness ==
    /\ disp[1].pc = "done" /\ disp[1].call = 2 /\ disp[1].result = "InvalidState"
    /\ disp[1].status = Executing
    /\ AuditCount(5, 1) = 1 /\ AuditCount(5, 2) = 0
    /\ BagCardinality(engine_calls) = 1
    /\ \E e \in BagToSet(audit_log) : e.operation_type = 5 /\ e.operator = ""

\* C2: however many executes run at once on the workflow, no more of them
\* pass the status guard than the workflow was queued; the others get the
\* status error, and the engine is handed the workflow at most once a queuing.
C2_AtMostOnePasses ==
    /\ nPassed <= queued
    /\ BagCardinality(engine_calls) <= nPassed
    /\ queued = 1 =>
          Cardinality({p \in Dispatchers :
              \/ disp[p].pc \in {"audit", "engine"}
              \/ disp[p].pc = "done" /\ disp[p].result # "InvalidState"}) <= 1

\* two executes ran at once on the queued workflow: one is past the guard
\* and still running, the other was refused
C2_Witness ==
    /\ queued = 1
    /\ disp[1].pc \in {"audit", "engine"}
    /\ disp[2].pc = "done" /\ disp[2].result = "InvalidState"

\* C3: execute_callback raises the duplicate error exactly when the status
\* it reads is not executing, and then no row, log, cache key or
\* notification changes.
C3_CallbackGuard ==
    [][\A p \in Callbacks : BeginsNow(p) =>
        /\ (cb'[p].result = "DuplicateCallback") <=> (wf.status # Executing)
        /\ cb'[p].result = "DuplicateCallback"
              => cb'[p].pc = "done" /\ UNCHANGED <<wf, content, audit_log, cache, notified>>]_vars

\* a callback for a finished workflow was refused
C3_Witness ==
    /\ wf.status = Finish
    /\ \E p \in Callbacks : cb[p].pc = "done" /\ cb[p].result = "DuplicateCallback"

\* callback p decides on the promotion and saves the row in this step
PromotesNow(p) == cb[p].pc = "promote" /\ cb'[p].pc = "audit"

\* the slot after the one the workflow w targets exists and is configured
HasNextSlot(w) ==
    \E i \in DOMAIN links, k \in 1..3 :
        /\ i = DbRelate(links, w)
        /\ k = CurrSlot(links[i], w)
        /\ links[i][Envs[k + 1] \o "_instance"] # None
        /\ links[i][Envs[k + 1] \o "_database"] \notin {None, ""}

\* C4: the workflow is promoted exactly when the classified status is not
\* exception and the next slot exists and is configured; otherwise the row
\* is saved with the classified status and the target it had.
C4_PromotionOnlyWhenClean ==
    [][\A p \in Callbacks : PromotesNow(p) =>
        LET promoted == cb'[p].next_env # ""
            w == cb[p].workflow
        IN  /\ promoted <=> (cb[p].classified # ExceptionStatus /\ HasNextSlot(w))
            /\ ~promoted => /\ wf'.status = cb[p].classified
                            /\ wf'.instance = w.instance
                            /\ wf'.db_name = w.db_name]_vars

\* C5: of the callbacks that run at once for one execution, at most one is
\* past the status guard.
C5_CallbacksSerialized ==
    \A p, q \in Callbacks :
        (/\ p # q
         /\ cb[p].pc \in {"persist", "promote", "audit", "notify"}
         /\ \/ cb[q].pc \in {"persist", "promote", "audit", "notify"}
            \/ cb[q].pc = "done" /\ cb[q].result = "ok")
        => cb[p].attempt # cb[q].attempt

\* C6: once a callback has returned for an execution, the next callback for
\* the same execution raises the duplicate error and changes no row, no log
\* entry and no notification.
C6_SecondCallbackRefused ==
    [][\A p \in Callbacks : BeginsNow(p) =>
        ((\E q \in Callbacks : /\ cb[q].pc = "done" /\ cb[q].result = "ok"
                                /\ cb[q].attempt = nPassed)
         => /\ cb'[p].pc = "done" /\ cb'[p].result = "DuplicateCallback"
            /\ UNCHANGED <<wf, content, audit_log, cache, notified>>)]_vars

\* the first callback promoted the workflow, logged and notified; the
\* second, for the same execution, was refused and the log holds one entry
C6_Witness ==
    /\ dcalls = 1 /\ ccalls = 2
    /\ cb[1].pc = "done" /\ cb[1].call = 2 /\ cb[1].result = "DuplicateCallback"
    /\ wf.status = ReviewPass
    /\ AuditCount(6, 1) = 1 /\ AuditCount(6, 2) = 0
    /\ BagCardinality(notified) = 1

\* C7: a callback that passed the guard ends, returning or raising, with the
\* persisted status finish, exception or review_pass.
C7_NeverLeftExecuting ==
    [][\A p \in Callbacks : (EndsNow(p) /\ cb'[p].result # "DuplicateCallback")
        => wf'.status \in {Finish, ExceptionStatus, ReviewPass}]_vars

\* C8: a promotion from slot k gives the workflow the instance and database
\* of slot k+1 of the relation row that holds its target at slot k, and the
\* status review_pass; the row is saved so and stays so until the callback
\* returns.
C8_PromotionTarget ==
    /\ [][\A p \in Callbacks : (PromotesNow(p) /\ cb'[p].next_env # "") =>
            \E i \in DOMAIN links, k \in 1..3 :
                /\ SlotMatches(links[i], Envs[k], cb[p].workflow)
                /\ cb'[p].curr_env = Envs[k]
                /\ cb'[p].next_env = Envs[k + 1]
                /\ wf'.instance = links[i][Envs[k + 1] \o "_instance"]
                /\ wf'.db_name = links[i][Envs[k + 1] \o "_database"]
                /\ wf'.status = ReviewPass]_vars
    /\ [][\A p \in Callbacks : (cb[p].pc \in {"audit", "notify"} /\ cb'[p] # cb[p])
            => wf' = cb[p].workflow]_vars

\* the workflow queued at dev (I1/D1) of the full chain was dispatched once
\* and called back once with the clean result: review_pass at sit (I2/D2)
C8_Witness ==
    /\ links = <<LinkFull>>
    /\ dcalls = 1 /\ ccalls = 1
    /\ cb[1].pc = "done" /\ cb[1].result = "ok"
    /\ content.execute_result = Json(CleanResult)
    /\ wf.status = ReviewPass /\ wf.instance = "I2" /\ wf.db_name = "D2"

\* C9: after a promotion to next_env (of a clean execution, the only one C4
\* allows) the name is the tag of next_env followed by the old name without
\* its leading tag, if it had one.
C9_NameAfterPromotion ==
    [][\A p \in Callbacks :
        (PromotesNow(p) /\ cb'[p].next_env # "" /\ cb[p].classified = Finish) =>
        LET old == cb[p].workflow.workflow_name
        IN  wf'.workflow_name =
              <<Mark(cb'[p].next_env)>> \o (IF TagMatch(old) THEN Tail(old) ELSE old)]_vars

\* C10: a failed task is classified exception with the one synthesised row,
\* whatever its result is; a successful task, whose result is a ReviewSet,
\* is classified exception when the warning or the error flag is set and
\* finish when neither is, both with the task result as it is.  (A success
\* handed over without a ReviewSet never reaches this point: see C7.)
C10_Classification ==
    \A p \in Callbacks : cb[p].pc = "persist" =>
        LET t == cb[p].task
            r == cb[p].execute_result
        IN  /\ ~t.success =>
                  /\ cb[p].classified = ExceptionStatus
                  /\ cb[p].workflow.status = ExceptionStatus
                  /\ Len(r.rows) = 1
                  /\ r.rows[1].stage = "Execute failed"
                  /\ r.rows[1].errlevel = 2
                  /\ r.rows[1].errormessage = t.result
                  /\ r.rows[1].sql = content.sql_content
            /\ (t.success /\ (t.result.warning # None \/ t.result.error # None)) =>
                  /\ t.result.kind = "ReviewSet"
                  /\ cb[p].classified = ExceptionStatus
                  /\ cb[p].workflow.status = ExceptionStatus
                  /\ r = t.result
            /\ (t.success /\ t.result.warning = None /\ t.result.error = None) =>
                  /\ cb[p].classified = Finish
                  /\ cb[p].workflow.status = Finish
                  /\ r = t.result

\* a failed task whose result is a ReviewSet, classified
C10_Witness ==
    \E p \in Callbacks :
        /\ cb[p].pc = "persist"
        /\ ~cb[p].task.success /\ cb[p].task.result = ErrorResult
        /\ cb[p].classified = ExceptionStatus

\* C11: the classification never raises: a callback that passed the status
\* guard has classified its task as finish or exception, whatever the task
\* is, a success without a ReviewSet included.
C11_ClassifierTotal ==
    [][\A p \in Callbacks : (BeginsNow(p) /\ cb'[p].result # "DuplicateCallback")
        => /\ cb'[p].pc = "persist"
           /\ cb'[p].classified \in {Finish, ExceptionStatus}]_vars

\* callback p takes a step in this step
StepsNow(p) == cb'[p] # cb[p]

\* C12: the steps after the result is saved are isolated: the relation query
\* and promotion is followed by the audit entry, the audit entry by the cache
\* and notification step, whether or not the step failed, and the audit,
\* cache and notification steps leave the workflow row as promotion saved it.
C12_StepsIsolated ==
    [][\A p \in Callbacks :
        /\ (cb[p].pc = "promote" /\ StepsNow(p)) => cb'[p].pc = "audit"
        /\ (cb[p].pc = "audit" /\ StepsNow(p)) => cb'[p].pc = "notify"
        /\ (cb[p].pc \in {"audit", "notify"} /\ StepsNow(p)) => wf' = wf]_vars

\* the row is written by a dispatch, by a callback, by the upstream queue
DispatchWrites == \E p \in Dispatchers : ChecksNow(p)

CallbackWrites(p) == cb[p].pc \in {"persist", "promote"} /\ StepsNow(p)

\* C13: every change of the persisted status follows the table: into
\* executing only from queuing or timingtask and by a dispatch; out of
\* executing only by a callback and to finish, exception or review_pass;
\* into review_pass only by a callback that classified finish; back to
\* queuing only from review_pass; and a callback writes only over the
\* execution it was delivered for.
C13_TransitionTable ==
    [][wf'.status # wf.status =>
        /\ wf'.status = Executing =>
              wf.status \in {Queuing, TimingTask} /\ DispatchWrites
        /\ wf.status = Executing =>
              /\ wf'.status \in {Finish, ExceptionStatus, ReviewPass}
              /\ \E p \in Callbacks : CallbackWrites(p)
        /\ wf'.status = ReviewPass =>
              \E p \in Callbacks : CallbackWrites(p) /\ cb[p].classified = Finish
        /\ wf'.status = Queuing => wf.status = ReviewPass
        /\ wf'.status \in {Finish, ExceptionStatus} =>
              \E p \in Callbacks : /\ CallbackWrites(p)
                                   /\ wf.status = Executing
                                   /\ cb[p].attempt = nPassed
        /\ (\E p \in Callbacks : CallbackWrites(p)) =>
              \E p \in Callbacks : CallbackWrites(p) /\ cb[p].attempt = nPassed]_vars

\* no database or collaborator call has raised
NoCallRaised ==
    /\ \A p \in Dispatchers : disp[p].result # "Error"
    /\ \A p \in Callbacks : cb[p].result # "Error"

\* the engine has run the workflow once on each of the four targets
RanOnEachOnce ==
    engine_calls = SetToBag({LinkFull[Envs[k] \o "_instance"] : k \in 1..4})

\* C14: on the full chain with clean executions, unless a call raises, the
\* k-th execution of the workflow runs on the k-th slot and the workflow
\* ends, for good, finished at the pro target after one execution on each
\* of dev, sit, uat and pro.
C14_ReachesPro ==
    []NoCallRaised =>
        /\ [](wf.status = Executing =>
                /\ nPassed \in 1..4
                /\ wf.instance = LinkFull[Envs[nPassed] \o "_instance"]
                /\ wf.db_name = LinkFull[Envs[nPassed] \o "_database"])
        /\ <>[](/\ wf.status = Finish
                /\ wf.instance = "I4" /\ wf.db_name = "D4"
                /\ nPassed = 4
                /\ RanOnEachOnce)

\* the workflow finished at pro after four executions
C14_Witness ==
    /\ wf.status = Finish /\ wf.instance = "I4" /\ wf.db_name = "D4"
    /\ nPassed = 4 /\ queued = 4
    /\ RanOnEachOnce
    /\ NoCallRaised

\* C15: a dispatch that fails the status guard changes no row, appends no
\* audit entry and hands nothing to the engine: the failing step leaves all
\* of them as they were and ends the call, and the engine has been invoked
\* at most once for each dispatch that passed the guard.
C15_FailedDispatchNoEffect ==
    /\ [][\A p \in Dispatchers : (ChecksNow(p) /\ disp'[p].result = "InvalidState") =>
            /\ disp'[p].pc = "done"
            /\ UNCHANGED <<wf, content, audit_log, engine_calls, cache, notified>>]_vars
    /\ [](\A p \in Dispatchers :
            (disp[p].pc = "done" /\ disp[p].result = "InvalidState")
                => AuditCount(5, disp[p].call) = 0)
    /\ [](BagCardinality(engine_calls) <= nPassed)

\* a dispatch of a finished workflow was refused: the row is still
\* finished and the log holds nothing of that call
C15_Witness ==
    \E p \in Dispatchers :
        /\ disp[p].pc = "done" /\ disp[p].result = "InvalidState"
        /\ disp[p].status = Finish
        /\ wf.status = Finish
        /\ AuditCount(5, disp[p].call) = 0
        /\ BagCardinality(engine_calls) = 1

\* the content row holds the text of an error: the saves of lines 87-89
\* raised and lines 92-97 went through
FellBack(c) == c.execute_result.errors # {}

\* C16: when the saving of the result failed and the forced update went
\* through, the persisted status is exception and finish_time is the task's
\* stop time after that step and after every later step of the callback, up
\* to its end, whatever the classified status and the relation table are.
C16_FallbackVisiblyFailed ==
    [][\A p \in Callbacks :
        (/\ cb[p].pc \in {"persist", "promote", "audit", "notify"}
         /\ StepsNow(p)
         /\ cb[p].pc = "persist" => cb'[p].pc = "promote"
         /\ FellBack(content'))
        => /\ wf'.status = ExceptionStatus
           /\ wf'.finish_time = cb[p].stopped]_vars

\* no row of the relation table has a slot equal to the target of w
NoLink(w) ==
    \A i \in DOMAIN links, k \in 1..4 : ~SlotMatches(links[i], Envs[k], w)

\* C17: when no relation row matches the workflow's target, the promotion
\* step finds no environment and saves the workflow as classified, with the
\* instance, db_name and workflow_name it had, and goes on to the audit
\* entry; a callback that then returns has appended its one audit entry and,
\* for a DDL workflow, has left no instance resource key in the cache.
C17_NoLinkSkipsPromotion ==
    /\ [][\A p \in Callbacks :
            (cb[p].pc = "promote" /\ StepsNow(p) /\ cb'[p].result # "Error"
             /\ NoLink(cb[p].workflow)) =>
                /\ cb'[p].pc = "audit"
                /\ cb'[p].curr_env = "" /\ cb'[p].next_env = ""
                /\ wf'.status = cb[p].classified
                /\ wf'.status \in {Finish, ExceptionStatus}
                /\ wf'.instance = wf.instance
                /\ wf'.db_name = wf.db_name
                /\ wf'.workflow_name = wf.workflow_name]_vars
    /\ [](\A p \in Callbacks :
            (cb[p].pc = "done" /\ cb[p].result = "ok" /\ NoLink(wf)) =>
                /\ AuditCount(6, cb[p].call) = 1
                /\ wf.syntax_type = 1 => InsResKeys(cache) = {})

\* a clean DDL execution with a relation table that holds other targets
\* only: finished where it was, logged without an environment, cache
\* cleared, notified
C17_Witness ==
    /\ links = <<LinkOther>>
    /\ \E p \in Callbacks : cb[p].pc = "done" /\ cb[p].result = "ok"
    /\ wf.status = Finish /\ wf.instance = "I1" /\ wf.db_name = "D1"
    /\ wf.workflow_name = <<"Add index">> /\ wf.syntax_type = 1
    /\ \E e \in BagToSet(audit_log) :
          e.operation_type = 6 /\ e.operation_info.env = "" /\ e.operation_info.prompt = ""
    /\ InsResKeys(cache) = {}
    /\ BagCardinality(notified) = 1

\* callback p appends its audit entry in this step
LogsNow(p) == cb[p].pc = "audit" /\ cb'[p].pc = "notify"

\* the entries callback p appends in this step
NewEntries(p) == {e \in BagToSet(audit_log') : e.by = cb[p].call /\ e.operation_type = 6}

\* C18: a callback that passed the guard and returns has appended exactly
\* one audit entry.  The entry names the environment whose slot held the
\* workflow's target (none when no relation row matched) and the display of
\* the classified status; it carries the pending suffix exactly when this
\* callback promoted the workflow, and the suffix names the environment of
\* the slot the workflow now targets.
C18_AuditEntry ==
    /\ [][\A p \in Callbacks : LogsNow(p) =>
            /\ BagCardinality(audit_log') = BagCardinality(audit_log) + 1
            /\ AuditCount(6, cb[p].call)' = 1
            /\ \A e \in NewEntries(p) :
                  /\ e.operation_info.result = StatusDisplay(cb[p].classified)
                  /\ e.operation_info.env = cb[p].curr_env
                  /\ NoLink(wf) <=> e.operation_info.env = ""
                  /\ e.operation_info.prompt # "" <=> wf.status = ReviewPass
                  /\ wf.status = ReviewPass =>
                        \E i \in DOMAIN links, k \in 1..3 :
                            /\ e.operation_info.env = Envs[k]
                            /\ e.operation_info.prompt = Envs[k + 1] \o " pending"
                            /\ SlotMatches(links[i], Envs[k + 1], wf)]_vars
    /\ [](\A p \in Callbacks :
            (cb[p].pc = "done" /\ cb[p].result = "ok") => AuditCount(6, cb[p].call) = 1)

\* a callback promoted a clean execution from dev to sit and returned: its
\* entry names dev, the display of finish and sit as pending
C18_Witness ==
    /\ \E e \in BagToSet(audit_log) :
          /\ e.operation_type = 6
          /\ e.operation_info = [env |-> "dev", result |-> StatusDisplay(Finish),
                                 prompt |-> "sit pending"]
    /\ wf.status = ReviewPass /\ wf.instance = "I2"
    /\ \E p \in Callbacks : cb[p].pc = "done" /\ cb[p].result = "ok"

\* dispatcher p hands the workflow to the engine in this step
InvokesNow(p) == disp[p].pc = "engine" /\ engine_calls' # engine_calls

\* C19 (the order of the steps): the status is written as executing by the
\* holder of the row lock and the lock is released with it; the audit entry
\* and the engine call come after, in this order, without the lock.
DispatchOrder ==
    /\ [][\A p \in Dispatchers : (ChecksNow(p) /\ disp'[p].result # "InvalidState") =>
            /\ rowLock = p /\ rowLock' = 0
            /\ wf'.status = Executing
            /\ AuditCount(5, disp[p].call) = 0]_vars
    /\ [][\A p \in Dispatchers : InvokesNow(p) =>
            /\ AuditCount(5, disp[p].call) = 1
            /\ rowLock # p]_vars
    /\ [](\A p \in Dispatchers : disp[p].pc \in {"audit", "engine"} => rowLock # p)

\* C19: the steps of a dispatch come in the order above, no dispatcher holds
\* the row lock while it logs or runs the engine, and the engine is handed
\* the workflow only while its persisted status is executing.
C19_EngineAfterUnlock ==
    /\ DispatchOrder
    /\ [][\A p \in Dispatchers : InvokesNow(p) => wf.status = Executing]_vars

\* the slot of row rel that holds the target of w, 0 when none does
SlotOf(rel, w) ==
    IF \E k \in 1..4 : SlotMatches(rel, Envs[k], w)
    THEN CHOOSE k \in 1..4 : SlotMatches(rel, Envs[k], w)
    ELSE 0

\* the configured slots of every row hold pairwise distinct targets
DistinctSlots ==
    \A i \in DOMAIN links : \A j, k \in 1..4 :
        (/\ j # k
         /\ links[i][Envs[j] \o "_instance"] # None
         /\ links[i][Envs[k] \o "_instance"] # None)
        => <<links[i][Envs[j] \o "_instance"], links[i][Envs[j] \o "_database"]>>
             # <<links[i][Envs[k] \o "_instance"], links[i][Envs[k] \o "_database"]>>

\* C20: with pairwise distinct slots, every change of the workflow's target
\* is made by the promotion step of a callback and moves it from slot k of a
\* relation row to slot k+1 of that row, which has an instance and a
\* non-empty database; a target at pro, or before an unconfigured slot, is
\* never changed.
C20_TargetMovesForward ==
    [][(DistinctSlots /\ <<wf'.instance, wf'.db_name>> # <<wf.instance, wf.db_name>>) =>
        /\ \E p \in Callbacks : PromotesNow(p)
        /\ \E i \in DOMAIN links :
              LET k == SlotOf(links[i], wf)
              IN  /\ k \in 1..3
                  /\ SlotOf(links[i], wf') = k + 1
                  /\ wf'.instance # None
                  /\ wf'.db_name \notin {None, ""}]_vars

\* with sit unconfigured, a workflow at uat was executed and called back:
\* it was moved to pro, one slot forward
C20_Witness ==
    /\ links = <<LinkNoSit>>
    /\ DistinctSlots
    /\ \E p \in Callbacks : cb[p].pc = "done" /\ cb[p].result = "ok"
    /\ wf.status = ReviewPass /\ wf.instance = "I4" /\ wf.db_name = "D4"

====
